---- MODULE Spec2Model ----
(***************************************************************************)
(* Model of astrokit's two-line element set class (src/src/tle.js):        *)
(* the constructor that decodes the fixed-column text and the lazy         *)
(* "first call initializes" driver TLE.sgp4.                               *)
(*                                                                         *)
(* Text is a sequence of one-character strings.  A JavaScript number is    *)
(* a record [nan, m, e]: NaN when nan is TRUE, otherwise the exact decimal *)
(* m * 10^e, kept normalised (no trailing zero in m, zero has m = 0 and    *)
(* e = 0); binary rounding and the sign of zero are not modelled.          *)
(***************************************************************************)
EXTENDS Integers, Sequences, FiniteSets, TLC

\* ------------------------------------------------------------------ text

DigitChars == <<"0", "1", "2", "3", "4", "5", "6", "7", "8", "9">>

IsDigit(c) == \E i \in 1..10 : DigitChars[i] = c

DigitVal(c) == (CHOOSE i \in 1..10 : DigitChars[i] = c) - 1

RECURSIVE Pow10(_)
Pow10(n) == IF n <= 0 THEN 1 ELSE 10 * Pow10(n - 1)

\* n written with exactly w digits, zero padded (used to build input lines)
RECURSIVE Digits(_, _)
Digits(n, w) == IF w = 0 THEN <<>>
                ELSE Digits(n \div 10, w - 1) \o <<DigitChars[(n % 10) + 1]>>

Min(a, b) == IF a <= b THEN a ELSE b

\* String.prototype.substr(start, length), start >= 0
Substr(s, start, len) ==
    IF start >= Len(s) THEN <<>>
    ELSE SubSeq(s, start + 1, Min(Len(s), start + len))

\* String.prototype.substring(start) / substring(start, end)
SubstringFrom(s, start) == SubSeq(s, Min(start, Len(s)) + 1, Len(s))
Substring(s, start, end) == SubSeq(s, Min(start, Len(s)) + 1, Min(end, Len(s)))

\* String.prototype.replace(pattern, by) with a one-character string pattern:
\* only the first occurrence is replaced
ReplaceFirst(s, c, by) ==
    IF \E i \in 1..Len(s) : s[i] = c
    THEN LET i == CHOOSE k \in 1..Len(s) : s[k] = c /\ \A j \in 1..(k - 1) : s[j] # c
         IN SubSeq(s, 1, i - 1) \o by \o SubSeq(s, i + 1, Len(s))
    ELSE s

\* --------------------------------------------------------------- numbers

NaN == [nan |-> TRUE, m |-> 0, e |-> 0]

IsNaN(a) == a.nan

RECURSIVE Norm(_, _)
Norm(m, e) == IF m = 0 THEN [nan |-> FALSE, m |-> 0, e |-> 0]
              ELSE IF m % 10 = 0 THEN Norm(m \div 10, e + 1)
              ELSE [nan |-> FALSE, m |-> m, e |-> e]

Int2Num(k) == Norm(k, 0)

\* the two mantissas of a and b brought to the smaller exponent
Aligned(a, b) ==
    LET e == Min(a.e, b.e)
    IN [x |-> a.m * Pow10(a.e - e), y |-> b.m * Pow10(b.e - e), e |-> e]

NumAdd(a, b) == IF IsNaN(a) \/ IsNaN(b) THEN NaN
                ELSE LET al == Aligned(a, b) IN Norm(al.x + al.y, al.e)

NumNeg(a) == IF IsNaN(a) THEN NaN ELSE Norm(-a.m, a.e)

NumMul(a, b) == IF IsNaN(a) \/ IsNaN(b) THEN NaN ELSE Norm(a.m * b.m, a.e + b.e)

\* a > b, false when either side is NaN
NumGT(a, b) == IF IsNaN(a) \/ IsNaN(b) THEN FALSE
               ELSE LET al == Aligned(a, b) IN al.x > al.y

\* truncation toward zero (ToIntegerOrInfinity)
NumTrunc(a) ==
    IF IsNaN(a) THEN NaN
    ELSE IF a.e >= 0 THEN a
    ELSE IF a.m >= 0 THEN Norm(a.m \div Pow10(-a.e), 0)
    ELSE Norm(-((-a.m) \div Pow10(-a.e)), 0)

\* first index >= i of s that holds no digit (Len(s) + 1 when none)
RECURSIVE DigitsEnd(_, _)
DigitsEnd(s, i) == IF i <= Len(s) /\ IsDigit(s[i]) THEN DigitsEnd(s, i + 1) ELSE i

\* value of the digits s[i..j-1]
RECURSIVE DigitsValue(_, _, _)
DigitsValue(s, i, j) == IF j <= i THEN 0
                        ELSE 10 * DigitsValue(s, i, j - 1) + DigitVal(s[j - 1])

RECURSIVE TrimLeft(_)
TrimLeft(s) == IF s # <<>> /\ s[1] = " " THEN TrimLeft(Tail(s)) ELSE s

RECURSIVE TrimRight(_)
TrimRight(s) == IF s # <<>> /\ s[Len(s)] = " " THEN TrimRight(SubSeq(s, 1, Len(s) - 1)) ELSE s

\* Number(string): StringToNumber on the trimmed text.  Empty text is 0; a
\* decimal literal [sign] digits [. digits] [E [sign] digits] (or . digits)
\* is its value; anything else is NaN.
Number(s) ==
    LET t  == TrimRight(TrimLeft(s))
        n  == Len(t)
        p0 == IF n >= 1 /\ t[1] \in {"+", "-"} THEN 2 ELSE 1
        sg == IF n >= 1 /\ t[1] = "-" THEN -1 ELSE 1
        p1 == DigitsEnd(t, p0)
        dot == p1 <= n /\ t[p1] = "."
        f0 == IF dot THEN p1 + 1 ELSE p1
        f1 == DigitsEnd(t, f0)
        hasE == f1 <= n /\ t[f1] \in {"E", "e"}
        x0 == IF hasE /\ f1 + 1 <= n /\ t[f1 + 1] \in {"+", "-"} THEN f1 + 2 ELSE f1 + 1
        xs == IF hasE /\ f1 + 1 <= n /\ t[f1 + 1] = "-" THEN -1 ELSE 1
        x1 == IF hasE THEN DigitsEnd(t, x0) ELSE f1
        mant == DigitsValue(t, p0, p1) * Pow10(f1 - f0) + DigitsValue(t, f0, f1)
        expo == IF hasE THEN xs * DigitsValue(t, x0, x1) ELSE 0
    IN IF n = 0 THEN Int2Num(0)
       ELSE IF (p1 - p0) + (f1 - f0) = 0 THEN NaN
       ELSE IF hasE /\ x1 = x0 THEN NaN
       ELSE IF x1 # n + 1 THEN NaN
       ELSE Norm(sg * mant, expo - (f1 - f0))

\* ---------------------------------------------------------------- input

\* A line of an element set is built from its column fields.  The record f
\* names what is written in each field; the constructor never reads f, only
\* the text built from it.
\*   yy      two-digit epoch year            (columns 18..19)
\*   day     epoch day of year, 12 columns   (columns 20..31): whole days d
\*           and frac hundred-millionths of a day
\*   ndd     second derivative of mean motion, 8 columns (44..51): sign sg,
\*           five digits dig, exponent sign xs, exponent digit x
\*   bs      B-star, 8 columns (53..60), written like ndd
\*   sat     catalog number, 5 columns       (2..6)
\*   mm      mean motion, 11 columns         (52..62 of line 2)
\*   cut     number of characters kept of line 1 (69 = whole line)

\* an exponent-encoded field: sign, five digits, exponent sign, exponent digit
ExpField(x) == <<x.sg>> \o Digits(x.dig, 5) \o <<x.xs>> \o Digits(x.x, 1)

\* the epoch day ddd.dddddddd from whole days and 1e-8 day units
DayField(d) == Digits(d.d, 3) \o <<".">> \o Digits(d.frac, 8)

Line1Text(f) ==
    <<"1", " ">> \o f.sat \o <<"U", " ">> \o <<"9", "8">> \o <<"0", "6", "7">> \o <<"A", " ", " ">>
    \o <<" ">> \o Digits(f.yy, 2) \o DayField(f.day) \o <<" ">> \o <<"-", ".", "0", "0", "0", "0", "2", "1", "8", "2">>
    \o <<" ">> \o ExpField(f.ndd) \o <<" ">> \o ExpField(f.bs) \o <<" ", "0", " ">> \o <<" ", "2", "9", "2">> \o <<"7">>

Line2Text(f) ==
    <<"2", " ">> \o f.sat \o <<" ">> \o <<" ", "5", "1", ".", "6", "4", "1", "6">> \o <<" ">> \o <<"2", "4", "7", ".", "4", "6", "2", "7">>
    \o <<" ">> \o <<"0", "0", "0", "6", "7", "0", "3">> \o <<" ">> \o <<"1", "3", "0", ".", "5", "3", "6", "0">> \o <<" ">> \o <<"3", "2", "5", ".", "0", "2", "8", "8">>
    \o <<" ">> \o f.mm \o <<"5", "6", "3", "5", "3">> \o <<"7">>

Lines(f) == <<SubSeq(Line1Text(f), 1, Min(f.cut, 69)), Line2Text(f)>>

NameMarked == <<"0", " ", "I", "S", "S">>
NamePlain == <<"I", "S", "S">>

BaseFields ==
    [yy |-> 8, day |-> [d |-> 1, frac |-> 50000000],
     ndd |-> [sg |-> " ", dig |-> 0, xs |-> "-", x |-> 0],
     bs |-> [sg |-> "-", dig |-> 11606, xs |-> "-", x |-> 4],
     sat |-> <<"2", "5", "5", "4", "4">>, mm |-> <<"1", "5", ".", "7", "2", "1", "2", "5", "3", "9", "1">>, cut |-> 69]

\* ---------------------------------------------------------- constructor

\* the value of a missing argument or of an array element past the end
Undefined == <<"undefined">>

Arg(items, i) == IF i <= Len(items) THEN items[i] ELSE Undefined

\* typeof line3: the constructor's parameters are lines, tline2 and tline3,
\* so line3 names nothing and its typeof is always 'undefined'
TypeofLine3(items) == "undefined"

\* the lines array after "Figure out the input format"
InputLines(args) ==
    IF args.array THEN args.items
    ELSE IF TypeofLine3(args.items) = "undefined"
         THEN <<Arg(args.items, 1), Arg(args.items, 2)>>
         ELSE <<Arg(args.items, 1), Arg(args.items, 2), Arg(args.items, 3)>>

NameOf(lines) ==
    IF Len(lines) = 3
    THEN IF Substring(lines[1], 0, 1) = <<"0">> THEN SubstringFrom(lines[1], 2)
         ELSE lines[1]
    ELSE <<"u", "n", "k", "n", "o", "w", "n">>

Line1Of(lines) == IF Len(lines) = 3 THEN lines[2] ELSE Arg(lines, 1)
Line2Of(lines) == IF Len(lines) = 3 THEN lines[3] ELSE Arg(lines, 2)

LaunchYear(line1) ==
    LET y == Number(Substr(line1, 9, 2))
    IN IF NumGT(y, Int2Num(50)) THEN NumAdd(y, Int2Num(1900))
       ELSE NumAdd(y, Int2Num(2000))

EpochYear(line1) ==
    LET y == Number(Substr(line1, 18, 2))
    IN IF NumGT(y, Int2Num(57)) THEN NumAdd(y, Int2Num(1900))
       ELSE NumAdd(y, Int2Num(2000))

\* an integral number as an integer
NumInt(a) == a.m * Pow10(a.e)

InvalidDate == [valid |-> FALSE, year |-> 0, ms |-> 0]

\* A Date is kept as its year and the milliseconds after Jan 1 00:00 UTC of
\* that year.  new Date(Date.UTC(epoch_year, 0, 1)), then setTime(getTime() +
\* (epoch_day_of_year - 1) * 86400 * 1000): the time value is clipped to a
\* whole number of milliseconds, NaN makes the Date invalid.
EpochDayFromZero(line1) ==
    LET year == EpochYear(line1)
        epoch_day_of_year == Number(Substr(line1, 20, 12))
        add == NumMul(NumMul(epoch_day_of_year, Int2Num(86400)), Int2Num(1000))
    IN IF IsNaN(year) \/ IsNaN(add) THEN InvalidDate
       ELSE [valid |-> TRUE, year |-> NumInt(NumTrunc(year)), ms |-> NumInt(NumTrunc(add))]
Epoch(line1) ==
    LET year == EpochYear(line1)
        epoch_day_of_year == Number(Substr(line1, 20, 12))
        add == NumMul(NumMul(NumAdd(epoch_day_of_year, Int2Num(-1)), Int2Num(86400)),
                      Int2Num(1000))
    IN IF IsNaN(year) \/ IsNaN(add) THEN InvalidDate
       ELSE [valid |-> TRUE, year |-> NumInt(NumTrunc(year)), ms |-> NumInt(NumTrunc(add))]

MeanMotionDotDot(line1) ==
    LET v == Number(ReplaceFirst(Substr(line1, 45, 7), "-", <<"E", "-">>))
    IN IF Substr(line1, 44, 1) = <<"-">> THEN NumNeg(v) ELSE v

Bstar(line1) ==
    Number(<<"0", ".">> \o ReplaceFirst(Substr(line1, 54, 7), "-", <<"E", "-">>))

\* the fields "Parse the TLE" assigns
ParsedFields(line1, line2) ==
    [satid |-> Number(Substr(line1, 2, 5)),
     launch_year |-> LaunchYear(line1),
     launch_number |-> Number(Substr(line1, 11, 3)),
     launch_piece |-> Substr(line1, 14, 3),
     epoch |-> Epoch(line1),
     mean_motion_dot |-> Number(Substr(line1, 33, 10)),
     mean_motion_dot_dot |-> MeanMotionDotDot(line1),
     bstar |-> Bstar(line1),
     elsetnum |-> Number(Substr(line1, 64, 4)),
     inclination |-> Number(Substr(line2, 8, 8)),
     raan |-> Number(Substr(line2, 17, 8)),
     eccen |-> Number(<<"0", ".">> \o Substr(line2, 26, 7)),
     arg_of_perigee |-> Number(Substr(line2, 34, 8)),
     mean_anomaly |-> Number(Substr(line2, 43, 8)),
     mean_motion |-> Number(Substr(line2, 52, 11)),
     revnum |-> Number(Substr(line2, 63, 5))]

\* line1.substr / line2.substr on undefined is a TypeError: no object results
ConstructorThrows(args) ==
    LET lines == InputLines(args)
    IN Line1Of(lines) = Undefined \/ Line2Of(lines) = Undefined

\* the object new TLE(...) yields
NewTLE(args) ==
    LET lines == InputLines(args)
    IN [raw |-> lines, name |-> NameOf(lines)] @@ ParsedFields(Line1Of(lines), Line2Of(lines))

FieldNames ==
    {"raw", "name", "satid", "launch_year", "launch_number", "launch_piece", "epoch",
     "mean_motion_dot", "mean_motion_dot_dot", "bstar", "elsetnum", "inclination",
     "raan", "eccen", "arg_of_perigee", "mean_anomaly", "mean_motion", "revnum"}

\* the element sets the constructor is given: the base set with one field
\* varied at a time
Signs == {" ", "-"}
ExpSigns == {"-", "+"}
ExpFields == {[sg |-> sg, dig |-> dig, xs |-> xs, x |-> x] :
                 sg \in Signs, dig \in {0, 12345}, xs \in ExpSigns, x \in {0, 3}}

WellFormedFields ==
    {[BaseFields EXCEPT !.yy = y] : y \in 0..99}
    \cup {[BaseFields EXCEPT !.ndd = x] : x \in ExpFields}
    \cup {[BaseFields EXCEPT !.bs = x] : x \in ExpFields}
    \cup {[BaseFields EXCEPT !.day = d] :
             d \in {[d |-> 1, frac |-> 0], [d |-> 2, frac |-> 25000000],
                    [d |-> 1, frac |-> 1], [d |-> 0, frac |-> 50000000]}}
    \cup {[BaseFields EXCEPT !.mm = m] :
             m \in {<<"1", "7", ".", "5", "0", "0", "0", "0", "0", "0", "0">>,
                    <<"0", "0", ".", "0", "0", "0", "0", "0", "0", "0", "0">>}}

\* non-numeric text in a numeric column, or a line too short for its columns
MalformedFields ==
    {[BaseFields EXCEPT !.sat = <<"2", "5", "X", "4", "4">>],
     [BaseFields EXCEPT !.mm = <<"1", "5", ".", "7", "2", "1", "A", "5", "3", "9", "1">>],
     [BaseFields EXCEPT !.cut = 30],
     [BaseFields EXCEPT !.cut = 10]}

\* how the lines reach the constructor: as one array or as separate string
\* arguments, with or without the name line; array1 and strings1 pass line 1
\* alone
Forms == {"array2", "array3", "strings2", "strings3", "array1", "strings1"}

MakeArgs(form, name, f, bad) ==
    [form |-> form, array |-> form \in {"array1", "array2", "array3"},
     items |-> IF form \in {"array3", "strings3"} THEN <<name>> \o Lines(f)
               ELSE IF form \in {"array1", "strings1"} THEN <<Lines(f)[1]>>
               ELSE Lines(f),
     name |-> name, f |-> f, malformed |-> bad]

ConstructorInputs ==
    {MakeArgs("array2", NamePlain, f, FALSE) : f \in WellFormedFields}
    \cup {MakeArgs("array2", NamePlain, f, TRUE) : f \in MalformedFields}
    \cup {MakeArgs(form, name, BaseFields, FALSE) :
             form \in Forms, name \in {NameMarked, NamePlain}}

\* ----------------------------------------------------------------- dates

\* Date.prototype.jd of astroutil.js: the Julian date, kept here in minutes
\* (the date times 1440) counted from Jan 1 00:00 of year 0 of the proleptic
\* calendar, so that differences of dates stay whole numbers of minutes
DaysBeforeYear(y) ==
    365 * y + ((y - 1) \div 4) - ((y - 1) \div 100) + ((y - 1) \div 400)

JdMinutes(date) ==
    IF ~date.valid THEN NaN
    ELSE Int2Num(DaysBeforeYear(date.year) * 1440 + (date.ms \div 60000))

MaxCalls == 3
MaxOffset == 1

\* the times asked of sgp4: the base epoch and MaxOffset steps of 360 minutes
\* after it
Times == {[valid |-> TRUE, year |-> 2008, ms |-> 43200000 + k * 21600000] :
             k \in 0..MaxOffset}

WhichconstArgs == {"undefined", "wgs72", "wgs84", "egm96"}

\* ---------------------------------------------------------------- driver

VARIABLES
    phase,        \* "new", "built" (new TLE(...) returned) or "threw"
    args,         \* what the constructor was given
    this,         \* the TLE object: a function from its property names
    failedStep,   \* what the propagation step yields on a failed record
    calls,        \* sgp4 calls made on the object
    initCalls,    \* the calls (by number) that ran sgp4init
    firstRec,     \* this.satrec as the first call left it
    last,         \* the latest sgp4 call: its number, arguments, whether it
                  \* initialized, the constants and state of the record it
                  \* used, whether it repeats a time asked before the previous
                  \* call's other time, and its result
    returned,     \* per requested time, the results sgp4 has returned
    ranOnFailed   \* some call ran the propagation step on a failed record

\* ------------------------------------------------- Earth orientation

VARIABLES
    eop,          \* the module's table: undefined, or the loaded records
    eopLoaded,    \* loadFromString has been called: "never", "once", "again"
    eopLines,     \* the lines of the latest raw text given to loadFromString
    eopLast       \* the latest call: which, its argument and what it returned

eopVars == <<eop, eopLoaded, eopLines, eopLast>>

\* a >= b, false when either side is NaN
NumGE(a, b) == IF IsNaN(a) \/ IsNaN(b) THEN FALSE
               ELSE LET al == Aligned(a, b) IN al.x >= al.y

\* String.prototype.slice(start, end), 0 <= start <= end
Slice(s, start, end) == SubSeq(s, Min(start, Len(s)) + 1, Min(end, Len(s)))

\* One line of finals.all.iau2000.txt, built from what is written in its MJD
\* columns (7..14) and cut to a length: the date, the MJD, pole x (18..26),
\* pole y (37..45), UT1-UTC (58..67) and the length of day (79..85), each
\* followed by its flag and error columns.
\*   mjd     the MJD written, a whole day; -1 writes text that is no number
\*   cut     the length of the line
EopLineText(l) ==
    LET mjd == IF l.mjd < 0 THEN <<"4", "1", "6", "8", "X", ".", "0", "0">>
               ELSE Digits(l.mjd, 5) \o <<".", "0", "0">>
        whole ==
            <<"7", "3", " ", "1", " ", "2", " ">> \o mjd \o <<" ", "I", " ">>
            \o <<" ", "0", ".", "1", "2", "0", "7", "3", "3">>
            \o <<" ", "0", ".", "0", "0", "9", "7", "8", "6", " ">>
            \o <<" ", "0", ".", "1", "3", "6", "9", "6", "6">>
            \o <<" ", "0", ".", "0", "1", "5", "9", "0", "2", " ", " ", "I">>
            \o <<" ", "0", ".", "8", "0", "8", "4", "1", "7", "8">>
            \o <<" ", "0", ".", "0", "0", "0", "2", "7", "1", "0", " ">>
            \o <<" ", "3", ".", "0", "2", "9", "0">>
            \o <<" ", "0", ".", "1", "9">>
    IN SubSeq(whole, 1, Min(l.cut, Len(whole)))

\* the lines joined by a line terminator into the raw text
RECURSIVE JoinLines(_, _)
JoinLines(lines, sep) ==
    IF lines = <<>> THEN <<>>
    ELSE IF Len(lines) = 1 THEN EopLineText(lines[1])
    ELSE EopLineText(lines[1]) \o sep \o JoinLines(Tail(lines), sep)

\* raw.split(/\r\n|\r|\n/): acc holds the finished lines, i is where the
\* next line starts; the line ends at the first terminator at or after i
RECURSIVE SplitFrom(_, _, _)
SplitFrom(s, i, acc) ==
    LET ends == {j \in i..Len(s) : s[j] \in {"\r", "\n"}}
    IN IF ends = {} THEN Append(acc, SubSeq(s, i, Len(s)))
       ELSE LET j == CHOOSE x \in ends : \A y \in ends : x <= y
                skip == IF s[j] = "\r" /\ j < Len(s) /\ s[j + 1] = "\n" THEN 2 ELSE 1
            IN SplitFrom(s, j + skip, Append(acc, SubSeq(s, i, j - 1)))

Split(s) == SplitFrom(s, 1, <<>>)

\* the record .map() makes of a line
RecordOfLine(line) ==
    [mjd |-> Number(Slice(line, 7, 15)),
     xp |-> Number(Slice(line, 18, 27)),
     yp |-> Number(Slice(line, 37, 46)),
     lod |-> Number(Slice(line, 79, 86)),
     dut1 |-> Number(Slice(line, 58, 68))]

LongEnoughFrom70(line) == Len(line) >= 70
LongEnough(line) == Len(line) > 70

Recent(v) == NumGE(v.mjd, Int2Num(41684))

RECURSIVE MapRecords(_)
MapRecords(lines) ==
    IF lines = <<>> THEN <<>>
    ELSE <<RecordOfLine(Head(lines))>> \o MapRecords(Tail(lines))

\* split, filter on the length, map, filter on the MJD
EopRecords(raw) ==
    SelectSeq(MapRecords(SelectSeq(Split(raw), LongEnough)), Recent)

\* a Date on the half-day grid, k half days after 1970-01-01 00:00 UTC, as
\* its valueOf() in milliseconds; k < 0 stands for an invalid Date
DateValue(k) == IF k < 0 THEN NaN ELSE Norm(k * 432, 5)

\* d.valueOf() / 86400000 + 40587 for a Date on the half-day grid
MjdOfDate(value) ==
    IF IsNaN(value) THEN NaN
    ELSE LET k == (value.m * Pow10(value.e - 5)) \div 432
         IN NumAdd(Norm(5 * k, -1), Int2Num(40587))

NoRecord == [mjd |-> NaN, xp |-> NaN, yp |-> NaN, lod |-> NaN, dut1 |-> NaN]

NotFound == [found |-> FALSE, rec |-> NoRecord]

\* Array.prototype.find: the first element that passes, or undefined
RECURSIVE FindFrom(_, _, _)
FindFrom(table, i, mjd) ==
    IF i > Len(table) THEN NotFound
    ELSE IF NumGE(table[i].mjd, mjd) THEN [found |-> TRUE, rec |-> table[i]]
    ELSE FindFrom(table, i + 1, mjd)

EopUndefined == [defined |-> FALSE, table |-> <<>>]

\* get(d)
GetResult(table, value) ==
    IF ~table.defined THEN NotFound ELSE FindFrom(table.table, 1, MjdOfDate(value))

MaxEopLines == 2

\* the lines a raw text is made of
EopLineKinds ==
    {[mjd |-> 41683, cut |-> 90], [mjd |-> 41684, cut |-> 90], [mjd |-> 41685, cut |-> 70],
     [mjd |-> 41686, cut |-> 71], [mjd |-> -1, cut |-> 90]}

LineTerminators == {<<"\n">>, <<"\r", "\n">>, <<"\r">>}

EopInputs ==
    {[lines |-> ls, sep |-> sep] :
        ls \in UNION {[1..n -> EopLineKinds] : n \in 0..MaxEopLines},
        sep \in LineTerminators}

\* the dates asked of get: MJD 41683, 41684.5, 41686 and 41687, and an
\* invalid Date
GetDates == {2192, 2195, 2198, 2200, -1}

\* what loadFromString leaves in the table, for each input
EopTableOf == [input \in EopInputs |-> EopRecords(JoinLines(input.lines, input.sep))]

\* held: the records the table held when loadFromString was called
NoEopCall == [op |-> "none", date |-> -1, held |-> 0, ret |-> TRUE, found |-> NotFound,
              table |-> EopUndefined]

tleVars == <<phase, args, this, failedStep, calls, initCalls, firstRec, last, returned,
             ranOnFailed>>

vars == <<tleVars, eopVars>>

\* a quantity of the record: the element it was computed from and its unit
Q(x, unit) == [of |-> x, unit |-> unit]

Unset == Q(NaN, "undefined")

\* this.satrec = {}: every property reads as undefined
EmptySatrec ==
    [grav |-> "undefined", no |-> Unset, no_kozai |-> Unset, bstar |-> Unset, a |-> Unset,
     ndot |-> Unset, nddot |-> Unset, inclo |-> Unset, nodeo |-> Unset, argpo |-> Unset,
     mo |-> Unset, ecco |-> Unset, alta |-> Unset, altp |-> Unset, jdsatepoch |-> Unset,
     init |-> "undefined", t |-> Unset, error |-> "none"]

GravityModels == {"wgs72", "wgs84"}

\* getgravconst(whichconst, satrec): the constants of the named set are
\* written into the record; an unknown name is an unknown-model error and the
\* record gets no constants
Getgravconst(whichconst, satrec) ==
    IF whichconst \in GravityModels THEN [satrec EXCEPT !.grav = whichconst] ELSE satrec

\* the elements of a record that sgp4init can work with: constants present,
\* every element a number, mean motion positive, and the orbit above the
\* surface (a mean motion of 17 revolutions per day or more puts the
\* semi-major axis below one Earth radius)
Physical(satrec) ==
    /\ satrec.grav \in GravityModels
    /\ \A k \in {"no", "bstar", "a", "ndot", "nddot", "inclo", "nodeo", "argpo", "mo",
                 "ecco", "jdsatepoch"} : ~IsNaN(satrec[k].of)
    /\ NumGT(satrec.no.of, Int2Num(0))
    /\ NumGT(Int2Num(17), satrec.no.of)

\* sgp4init(whichconst, 'i', satid, epoch, ..., satrec): the one-time
\* initialization; a decayed or non-physical orbit is reported in the record
Sgp4init(whichconst, satrec) ==
    [satrec EXCEPT !.error = IF Physical(satrec) THEN "none" ELSE "decayed"]

NoVector == [kind |-> "false", rec |-> EmptySatrec, tsince |-> NaN]

\* sgp4(satrec, tsince): the propagation step, a function of the record and
\* the elapsed time alone that leaves the record as it is.  On a record whose
\* initialization failed the outcome is not defined by the design: it is
\* either false or some vector, the same at every call (failedStep).
Sgp4Step(satrec, tsince) ==
    IF satrec.error # "none" /\ failedStep = "false" THEN NoVector
    ELSE [kind |-> "vector", rec |-> satrec, tsince |-> tsince]

\* "Use wgs-84 Earth parameters by default"
WhichconstOrWgs72(whichconst) == IF whichconst = "undefined" THEN "wgs72" ELSE whichconst
DefaultWhichconst(whichconst) == IF whichconst = "undefined" THEN "wgs84" ELSE whichconst

\* "Do we need to initialize satrec?"
NeedsInitOnNewModel(obj, whichconst) ==
    "satrec" \notin DOMAIN obj \/ obj["satrec"].grav # whichconst
NeedsInit(obj, whichconst) == "satrec" \notin DOMAIN obj

WithProperty(obj, name, value) ==
    [k \in DOMAIN obj \cup {name} |-> IF k = name THEN value ELSE obj[k]]

\* the record the driver fills in before sgp4init
DriverRecord(obj, whichconst) ==
    LET g == Getgravconst(whichconst, EmptySatrec)
        no == Q(obj["mean_motion"], "rad/min")
        a == Q(IF g.grav = "undefined" THEN NaN ELSE obj["mean_motion"], "er")
        ecco == Q(obj["eccen"], "1")
        apsis == IF IsNaN(a.of) \/ IsNaN(ecco.of) THEN NaN ELSE a.of
    IN [g EXCEPT !.no = no, !.no_kozai = no, !.bstar = Q(obj["bstar"], "1/er"), !.a = a,
                 !.ndot = Q(obj["mean_motion_dot"], "rad/min2"),
                 !.nddot = Q(obj["mean_motion_dot_dot"], "rad/min3"),
                 !.inclo = Q(obj["inclination"], "rad"),
                 !.nodeo = Q(obj["raan"], "rad"),
                 !.argpo = Q(obj["arg_of_perigee"], "rad"),
                 !.mo = Q(obj["mean_anomaly"], "rad"),
                 !.ecco = ecco,
                 !.alta = Q(apsis, "alta"), !.altp = Q(apsis, "altp"),
                 !.jdsatepoch = Q(JdMinutes(obj["epoch"]), "min"),
                 !.init = "y", !.t = Q(Int2Num(0), "min")]

\* the body of "if (typeof this.satrec === 'undefined')"
InitBlockInPlace(obj, whichconst) ==
    LET rec == Sgp4init(whichconst, DriverRecord(obj, whichconst))
    IN WithProperty(WithProperty(obj, "satrec", rec), "inclination",
                    NumMul(obj["inclination"], Norm(1745, -5)))
InitBlockWgs84(obj, whichconst) ==
    WithProperty(obj, "satrec", Sgp4init("wgs84", DriverRecord(obj, "wgs84")))
InitBlock(obj, whichconst) ==
    WithProperty(obj, "satrec", Sgp4init(whichconst, DriverRecord(obj, whichconst)))

\* "Time since TLE epoch, in minutes"
Tsince(thedate, satrec) == NumAdd(JdMinutes(thedate), NumNeg(satrec.jdsatepoch.of))

\* what the call leaves of the object after the propagation step: the lines
\* after the initialization block write nothing
AfterStepAdvancing(obj, thedate) ==
    WithProperty(obj, "satrec",
                 [obj["satrec"] EXCEPT !.jdsatepoch = Q(JdMinutes(thedate), "min")])
AfterStep(obj, thedate) == obj

NoObject == [k \in {} |-> 0]

NoCall == [call |-> 0, thedate |-> InvalidDate, whichconst |-> "undefined", init |-> FALSE,
           grav |-> "undefined", failed |-> FALSE, revisit |-> FALSE, results |-> NoVector]

Init ==
    /\ phase = "new"
    /\ args = MakeArgs("array2", NamePlain, BaseFields, FALSE)
    /\ this = NoObject
    /\ failedStep \in {"false", "vector"}
    /\ calls = 0
    /\ initCalls = {}
    /\ firstRec = EmptySatrec
    /\ last = NoCall
    /\ returned = [T \in Times |-> {}]
    /\ ranOnFailed = FALSE
    /\ eop = EopUndefined
    /\ eopLoaded = "never"
    /\ eopLines = <<>>
    /\ eopLast = NoEopCall

\* new TLE(lines, tline2, tline3)
Constructor(a) ==
    /\ phase = "new"
    /\ args' = a
    /\ IF ConstructorThrows(a)
       THEN phase' = "threw" /\ this' = this
       ELSE phase' = "built" /\ this' = NewTLE(a)
    /\ UNCHANGED <<failedStep, calls, initCalls, firstRec, last, returned, ranOnFailed, eopVars>>

\* tle.sgp4(thedate, whichconst)
Sgp4(thedate, whichconstArg) ==
    /\ phase = "built"
    /\ calls < MaxCalls
    /\ LET whichconst == DefaultWhichconst(whichconstArg)
           init == NeedsInit(this, whichconst)
           obj == IF init THEN InitBlock(this, whichconst) ELSE this
           satrec == obj["satrec"]
           tsince == Tsince(thedate, satrec)
           results == Sgp4Step(satrec, tsince)
       IN /\ this' = AfterStep(obj, thedate)
          /\ calls' = calls + 1
          /\ initCalls' = IF init THEN initCalls \cup {calls + 1} ELSE initCalls
          /\ firstRec' = IF calls = 0 THEN satrec ELSE firstRec
          /\ last' = [call |-> calls + 1, thedate |-> thedate, whichconst |-> whichconstArg,
                      init |-> init, grav |-> satrec.grav,
                      failed |-> satrec.error # "none",
                      revisit |-> (returned[thedate] # {} /\ last.call > 0
                                   /\ last.thedate # thedate),
                      results |-> results]
          /\ returned' = [returned EXCEPT ![thedate] = @ \cup {results}]
          /\ ranOnFailed' = (ranOnFailed \/ satrec.error # "none")
    /\ UNCHANGED <<phase, args, failedStep, eopVars>>

Next ==
    \/ \E a \in ConstructorInputs : Constructor(a)
    \/ \E thedate \in Times, whichconst \in WhichconstArgs : Sgp4(thedate, whichconst)

Spec == Init /\ [][Next]_vars

\* loadFromString(raw)
loadFromString(input) ==
    /\ eop' = [defined |-> TRUE, table |-> EopTableOf[input]]
    /\ eopLoaded' = IF eopLoaded = "never" THEN "once" ELSE "again"
    /\ eopLines' = input.lines
    /\ eopLast' = [NoEopCall EXCEPT !.op = "load", !.held = Len(eop.table), !.ret = TRUE]
    /\ UNCHANGED tleVars

\* get(d)
get(k) ==
    /\ eopLast' = [NoEopCall EXCEPT !.op = "get", !.date = k,
                                    !.found = GetResult(eop, DateValue(k))]
    /\ UNCHANGED <<eop, eopLoaded, eopLines, tleVars>>

\* raw()
raw ==
    /\ eopLast' = [NoEopCall EXCEPT !.op = "raw", !.table = eop]
    /\ UNCHANGED <<eop, eopLoaded, eopLines, tleVars>>

InitEop == Init /\ failedStep = "false"

NextEop ==
    \/ \E input \in EopInputs : loadFromString(input)
    \/ \E k \in GetDates : get(k)
    \/ raw

SpecEop == InitEop /\ [][NextEop]_vars

\* ---------------------------------------------------------------- claims

\* C1: over any sequence of sgp4 calls on one TLE, the record is created and
\* sgp4init is run exactly once, in the first call; every later call finds
\* that same record and does not initialize again.
C1_InitializedOnceInFirstCall ==
    calls >= 1 =>
        /\ initCalls = {1}
        /\ "satrec" \in DOMAIN this
        /\ this["satrec"] = firstRec

\* a later call, naming another model than the first, that did not initialize
C1_LaterCallReusedRecord ==
    /\ calls >= 2
    /\ ~last.init
    /\ last.whichconst = "wgs72"
    /\ firstRec.grav = "wgs84"

\* C2: when initialization in the first call fails (unknown model name,
\* decayed or non-physical orbit), that call returns no StateVector and no
\* call ever runs the propagation step on the failed record.
C2_FailedRecordNeverPropagated ==
    /\ ~ranOnFailed
    /\ (last.call > 0 /\ last.failed) => last.results.kind = "false"

\* C3: constructing a TLE from malformed fixed-column text signals a parse
\* failure instead of yielding an element set, so that sgp4 never initializes
\* from such elements.
C3_MalformedInputYieldsNoElementSet ==
    args.malformed => (phase # "built" /\ initCalls = {})

\* C4: from three lines the name is the first line (padding marker stripped
\* when it starts with '0') and the elements come from the second and third
\* lines, whether the lines come as one array or as three string arguments;
\* from two lines the name is 'unknown' and the elements come from those two.
C4_NameAndElementLines ==
    phase = "built" =>
        LET expected ==
                IF args.form \in {"array3", "strings3"}
                THEN [name |-> NameOf(<<args.name, <<>>, <<>>>>),
                      line1 |-> args.items[2], line2 |-> args.items[3]]
                ELSE [name |-> <<"u", "n", "k", "n", "o", "w", "n">>,
                      line1 |-> args.items[1], line2 |-> args.items[2]]
            elements == ParsedFields(expected.line1, expected.line2)
        IN /\ this["name"] = expected.name
           /\ \A k \in DOMAIN elements : this[k] = elements[k]

\* C5: a two-digit epoch year yy in 0..99 resolves to 1900 + yy when
\* yy >= 57 and to 2000 + yy otherwise.
C5_EpochYearPivot ==
    (phase = "built" /\ args.form = "array2" /\ ~args.malformed) =>
        /\ this["epoch"].valid
        /\ this["epoch"].year = IF args.f.yy >= 57 THEN 1900 + args.f.yy
                                ELSE 2000 + args.f.yy

\* the value sign x 0.DDDDD x 10^(+/-X) of an exponent-encoded field
ExpFieldValue(x) ==
    Norm((IF x.sg = "-" THEN -1 ELSE 1) * x.dig, (IF x.xs = "-" THEN -x.x ELSE x.x) - 5)

\* C6: both exponent-encoded fields of line 1 (second derivative of mean
\* motion, B-star) decode to sign x 0.DDDDD x 10^(+/-X).
C6_ExponentFieldsDecoded ==
    (phase = "built" /\ args.form = "array2" /\ ~args.malformed) =>
        /\ this["mean_motion_dot_dot"] = ExpFieldValue(args.f.ndd)
        /\ this["bstar"] = ExpFieldValue(args.f.bs)

C8_ParsedFieldsUntouched ==
    [][phase = "built" =>
          /\ DOMAIN this' \subseteq FieldNames \cup {"satrec"}
          /\ \A k \in FieldNames : this'[k] = this[k]]_vars

\* a call has added satrec to an object that holds every parsed field
C8_RecordAdded ==
    /\ calls >= 1
    /\ DOMAIN this = FieldNames \cup {"satrec"}
    /\ ~IsNaN(this["inclination"])
    /\ this["inclination"] # Int2Num(0)

\* C9 as stated: a call that names no gravity model propagates with the
\* 'wgs84' constants.
C9_UnnamedCallUsesWgs84 ==
    (last.call > 0 /\ last.whichconst = "undefined") => last.grav = "wgs84"

\* C9 as amended: a record-creating (first) call that names no gravity model
\* initializes the record with, and propagates with, the 'wgs84' constants; a
\* later call that names none propagates with the first call's constants.
C9_UnnamedFirstCallUsesWgs84 ==
    (last.call > 0 /\ last.whichconst = "undefined") =>
        /\ last.init => (last.grav = "wgs84" /\ this["satrec"].grav = "wgs84")
        /\ ~last.init => last.grav = firstRec.grav

\* a first call without a model name that returned a vector
C9_UnnamedFirstCall ==
    /\ last.call = 1
    /\ last.init
    /\ last.whichconst = "undefined"
    /\ last.results.kind = "vector"
    /\ last.results.rec.grav = "wgs84"

\* the whole milliseconds (a Date holds no fraction of one) of
\* (d - 1) x 86 400 000 ms for the day-of-year d written in the field
EpochOffsetMs(day) ==
    NumInt(NumTrunc(NumAdd(Int2Num((day.d - 1) * 86400000),
                           NumMul(Norm(day.frac, -8), Int2Num(86400000)))))

\* C11: the parsed epoch is Jan 1 00:00 UTC of the resolved four-digit year
\* advanced by the day-of-year field counted from 1: a field value d gives
\* the instant (d - 1) x 86 400 000 ms after Jan 1 00:00 UTC (in the whole
\* milliseconds a Date holds), so d = 1.0 is Jan 1 00:00 UTC itself.
C11_EpochIsJan1PlusDayMinusOne ==
    (phase = "built" /\ args.form = "array2" /\ ~args.malformed) =>
        /\ this["epoch"].valid
        /\ this["epoch"].year = NumInt(EpochYear(args.items[1]))
        /\ this["epoch"].ms = EpochOffsetMs(args.f.day)
        /\ (args.f.day = [d |-> 1, frac |-> 0]) => this["epoch"].ms = 0

\* an element set of day 2.25 was parsed: 1.25 days after Jan 1 00:00 UTC
C11_DayTwoAndAQuarter ==
    /\ phase = "built"
    /\ args.form = "array2"
    /\ args.f.day = [d |-> 2, frac |-> 25000000]
    /\ this["epoch"] = [valid |-> TRUE, year |-> 2008, ms |-> 108000000]

\* the constants a record gets for a model name: those of the named set, or
\* none when the name is not a supported one
ModelOfName(whichconst) ==
    IF whichconst = "undefined" THEN "wgs84"
    ELSE IF whichconst \in {"wgs72", "wgs84"} THEN whichconst
    ELSE "undefined"

\* C13: the gravity model of a TLE's record is the one named (or defaulted)
\* in the first sgp4 call and never changes afterwards: a later call, also
\* one naming another model, does not initialize again and propagates with
\* the first call's constants.
C13_ModelFixedByFirstCall ==
    [][calls' = calls + 1 =>
          /\ calls = 0 =>
                 /\ this'["satrec"].grav = ModelOfName(last'.whichconst)
                 /\ last'.grav = ModelOfName(last'.whichconst)
          /\ calls >= 1 =>
                 /\ ~last'.init
                 /\ this'["satrec"].grav = this["satrec"].grav
                 /\ last'.grav = this["satrec"].grav
                 /\ last'.results.kind = "vector" =>
                        last'.results.rec.grav = firstRec.grav]_vars

\* a record made with wgs72 has served a later call that named wgs84
C13_OtherModelNamedLater ==
    /\ calls >= 2
    /\ firstRec.grav = "wgs72"
    /\ last.whichconst = "wgs84"
    /\ last.grav = "wgs72"
    /\ last.results.kind = "vector"
    /\ last.results.rec.grav = "wgs72"

\* C12 (as stated): loadFromString returns true when the table was loaded
\* from raw and false when loading fails, as when raw holds no line that
\* yields a usable record.
C12_FalseWhenNothingUsable ==
    eopLast.op = "load" => (eopLast.ret <=> eop.table # <<>>)

\* the record written in a line: the MJD written, the pole, UT1-UTC and, when
\* the line reaches its columns, the length of day
ExpectedRecord(l) ==
    [mjd |-> Int2Num(l.mjd),
     xp |-> Norm(120733, -6),
     yp |-> Norm(136966, -6),
     lod |-> IF l.cut >= 86 THEN Norm(30290, -4) ELSE Int2Num(0),
     dut1 |-> Norm(8084178, -7)]

\* the records of the lines longer than 70 characters whose MJD is a number
\* that is at least 41684, in input order
RECURSIVE ExpectedTable(_)
ExpectedTable(lines) ==
    IF lines = <<>> THEN <<>>
    ELSE LET l == Head(lines)
         IN (IF l.cut > 70 /\ l.mjd >= 41684 THEN <<ExpectedRecord(l)>> ELSE <<>>)
            \o ExpectedTable(Tail(lines))

\* the first record in table order whose mjd >= k / 2 + 40587, k half days
\* after 1970-01-01 being the date asked; none for an invalid date
FirstAtOrAfter(table, k) ==
    LET ok == {i \in 1..Len(table) : 2 * NumInt(table[i].mjd) >= k + 2 * 40587}
    IN IF k < 0 \/ ok = {} THEN NotFound
       ELSE [found |-> TRUE, rec |-> table[CHOOSE i \in ok : \A j \in ok : i <= j]]

\* C14: for any sequence of loadFromString, get and raw calls: until
\* loadFromString has been called the table is undefined and get(d) and raw()
\* return undefined; each loadFromString replaces the table (never appends to
\* it) with the records of the lines longer than 70 characters whose
\* mjd >= 41684, in input order; afterwards get(d) returns the first record
\* in table order whose mjd >= d.valueOf() / 86400000 + 40587, or undefined
\* when no record qualifies.
C14_TableReplacedAndFirstMatchReturned ==
    /\ eopLoaded = "never" =>
           /\ ~eop.defined
           /\ eopLast.op = "get" => eopLast.found = NotFound
           /\ eopLast.op = "raw" => ~eopLast.table.defined
    /\ eopLoaded # "never" =>
           /\ eop.defined
           /\ eop.table = ExpectedTable(eopLines)
           /\ eopLast.op = "get" => eopLast.found = FirstAtOrAfter(eop.table, eopLast.date)

\* a second load put MJD 41686 before MJD 41684 in the table, and get of
\* MJD 41683 returned the record of 41686, the first in table order
C14_SecondLoadThenFirstInTableOrder ==
    /\ eopLoaded = "again"
    /\ eopLines = <<[mjd |-> 41686, cut |-> 71], [mjd |-> 41684, cut |-> 90]>>
    /\ Len(eop.table) = 2
    /\ eopLast.op = "get"
    /\ eopLast.date = 2192
    /\ eopLast.found.found
    /\ eopLast.found.rec.mjd = Int2Num(41686)
    /\ eopLast.found.rec.lod = Int2Num(0)

====
